---- MODULE Spec2Model ----
(***************************************************************************)
(* Model of btc_1h_signal_bot.py: the poll loop, the timing gate, the two  *)
(* candle fetches, the two pattern detectors, the confluence rule, the     *)
(* order-flow snapshot and the Telegram dispatcher.                        *)
(*                                                                         *)
(* Time is in whole seconds since the epoch.  Prices and volumes are small *)
(* integers and the quotients of the source are kept as exact fractions,   *)
(* compared by cross-multiplication.  The inputs are drawn so that this is *)
(* what the source's IEEE doubles give: high + low + close is a multiple   *)
(* of three in every candle, so each typical price and each sum is an      *)
(* exact integer, and no positive volume sits on the spike threshold.      *)
(*                                                                         *)
(* Spec is the loop with every sleep returning on time, SpecSched the loop *)
(* with late wake-ups, FairSpec the loop under fairness, SpecFn the pure   *)
(* functions on arbitrary small windows, and SpecScale detect_vwap_flip in *)
(* binary64 arithmetic on windows whose prices are not integers.           *)
(***************************************************************************)
EXTENDS Integers, Sequences, FiniteSets, TLC

VARIABLES
    clock,      \* wall clock (UTC), seconds since the epoch
    pc,         \* position of the main thread
    ticks,      \* iterations of the main loop started so far
    token,      \* TELEGRAM_BOT_TOKEN is non-empty
    chat,       \* TELEGRAM_CHAT_ID is non-empty
    now,        \* check_signals: now (line 116), <<>> before it is read
    bnb,        \* check_signals: bnb
    bybt,       \* check_signals: bybt
    fakeout,    \* check_signals: fakeout
    vwapflip,   \* check_signals: vwapflip
    delta,      \* check_signals: delta, None or <<number>>
    imb,        \* check_signals: imb, None or <<rational>>
    msg,        \* check_signals: msg, <<>> until it is composed
    err,        \* exception caught by check_signals' handler in this tick
    tgerr,      \* exception caught by send_telegram's handler in this tick
    escaped,    \* an exception left check_signals (caught by the main loop)
    calls,      \* the calls this tick has made, in order
    posts,      \* requests.post attempts this tick has made
    lastAlert,  \* the last send_telegram call of the run: candle and outcome
    opens,      \* the iterations that passed the timing gate, in order
    lastOpen,   \* now of the last iteration that passed the gate, or None
    win,        \* a candle window handed to a pure function
    res         \* the function applied to win and what it returned

vars == <<clock, pc, ticks, token, chat, now, bnb, bybt, fakeout, vwapflip, delta,
          imb, msg, err, tgerr, escaped, calls, posts, lastAlert, opens,
          lastOpen, win, res>>

----------------------------------------------------------------------------
(* Program constants *)

LOOKBACK == 24
VOL_SPIKE_MULT_NUM == 18
VOL_SPIKE_MULT_DEN == 10
GATE_MINUTE == 50
SLEEP_SECONDS == 600
BACKOFF_SECONDS == 60
BINANCE_TIMEOUT == 10
BYBIT_TIMEOUT == 10
ORDERBOOK_TIMEOUT == 5
TELEGRAM_TIMEOUT == 10
HOUR == 60 * 60

(* Bounds of the model *)

MaxTicks == 8     \* loop iterations explored
ShortLen == 2     \* length of a short exchange reply
MaxLen == 3       \* longest window handed to the pure functions
StartHour == 30   \* the hour (since the epoch) in which the process starts
MaxLate == 1      \* longest late wake-up of a sleep, in seconds
MaxScaleLen == 2  \* longest window of float candles

None == <<>>
Some(x) == <<x>>

----------------------------------------------------------------------------
(* List helpers: Python's reversed(), slices, sum, max, min *)

Reversed(s) == [i \in 1..Len(s) |-> s[Len(s) + 1 - i]]

Slice(s, a, b) == [i \in 1..(b - a) |-> s[a + i]]     \* s[a:b], 0-based

RECURSIVE SumSeq(_)
SumSeq(s) == IF s = <<>> THEN 0 ELSE s[1] + SumSeq(Tail(s))

\* max() and min() of a non-empty list
MaxSeq(s) == CHOOSE m \in {s[i] : i \in 1..Len(s)} : \A i \in 1..Len(s) : s[i] <= m

MinSeq(s) == CHOOSE m \in {s[i] : i \in 1..Len(s)} : \A i \in 1..Len(s) : m <= s[i]

----------------------------------------------------------------------------
(* Rationals: the quotients the source computes in floating point.  Every  *)
(* denominator is positive.                                                *)

Rat(n, d) == [num |-> n, den |-> d]
RatOfInt(x) == Rat(x, 1)
RatGT(a, b) == a.num * b.den > b.num * a.den
RatLT(a, b) == a.num * b.den < b.num * a.den

----------------------------------------------------------------------------
(* What the exchanges hold.  A candle kind fixes open, high, low, close    *)
(* and volume; the reply to a klines request made at time t is n candles,  *)
(* the last one the candle of the hour of t (still forming), the first     *)
(* n - 1 flat.                                                             *)

Ohlcv(kind) ==
    CASE kind = "flat" ->
           [open |-> 10, high |-> 10, low |-> 10, close |-> 10, vol |-> 1]
      [] kind = "fake" ->
           [open |-> 10, high |-> 11, low |-> 5, close |-> 11, vol |-> 2]
      [] kind = "flip" ->
           [open |-> 10, high |-> 12, low |-> 9, close |-> 12, vol |-> 1]

HourStart(t) == (t \div HOUR) * HOUR

KindAt(n, kind, k) == IF k = n THEN kind ELSE "flat"

OpenTime(n, k, t) == HourStart(t) - (n - k) * HOUR

\* Binance: rows [openTime ms, open, high, low, close, volume], oldest first
BinanceReply(n, kind, t) ==
    [k \in 1..n |->
        LET c == Ohlcv(KindAt(n, kind, k))
        IN  <<OpenTime(n, k, t) * 1000, c.open, c.high, c.low, c.close, c.vol>>]

\* Bybit: objects keyed start/open/high/low/close/volume, newest first
BybitReply(n, kind, t) ==
    Reversed([k \in 1..n |->
        LET c == Ohlcv(KindAt(n, kind, k))
        IN  [start |-> OpenTime(n, k, t), open |-> c.open, high |-> c.high,
             low |-> c.low, close |-> c.close, volume |-> c.vol]])

Replies == {<<0, "flat">>, <<ShortLen, "flip">>, <<LOOKBACK + 1, "flat">>,
            <<LOOKBACK + 1, "fake">>, <<LOOKBACK + 1, "flip">>}

\* Exceptions requests.get, raise_for_status, json() and the conversions raise
FetchErrors == {"ConnectionError", "HTTPError", "ValueError"}

Durations(timeout) == {0, timeout}

----------------------------------------------------------------------------
(* Data helpers *)

fetch_binance(j) ==
    [i \in 1..Len(j) |->
        [time |-> j[i][1] \div 1000, open |-> j[i][2], high |-> j[i][3],
         low |-> j[i][4], close |-> j[i][5], vol |-> j[i][6]]]

fetch_bybit(j) ==
    LET r == Reversed(j)
    IN  [i \in 1..Len(r) |->
            [time |-> r[i].start, open |-> r[i].open, high |-> r[i].high,
             low |-> r[i].low, close |-> r[i].close, vol |-> r[i].volume]]

\* the loop of get_vwap; tot_vp3 is three times tot_vp
RECURSIVE VwapLoop(_, _, _)
VwapLoop(candles, tot_vol, tot_vp3) ==
    IF candles = <<>> THEN <<tot_vol, tot_vp3>>
    ELSE LET c == candles[1]
             typical3 == c.high + c.low + c.close
         IN  VwapLoop(Tail(candles), tot_vol + c.vol, tot_vp3 + typical3 * c.vol)

\* mutant: zero in place of None for a window without volume
get_vwap_zero(candles) ==
    LET t == VwapLoop(candles, 0, 0)
    IN  IF t[1] # 0 THEN Some(Rat(t[2], 3 * t[1])) ELSE Some(Rat(0, 1))

get_vwap(candles) ==
    LET t == VwapLoop(candles, 0, 0)
        tot_vol == t[1]
        tot_vp3 == t[2]
    IN  IF tot_vol # 0 THEN Some(Rat(tot_vp3, 3 * tot_vol)) ELSE None

----------------------------------------------------------------------------
(* Signals *)

Last(candles) == candles[Len(candles)]                      \* candles[-1]

\* mutant: the range high taken over the whole window, the last candle included
Highs_with_last(candles) == [i \in 1..Len(candles) |-> candles[i].high]

\* the list comprehensions over candles[:-1]
Highs(candles) == [i \in 1..(Len(candles) - 1) |-> candles[i].high]
Lows(candles) == [i \in 1..(Len(candles) - 1) |-> candles[i].low]
Vols(candles) == [i \in 1..(Len(candles) - 1) |-> candles[i].vol]

\* last["vol"] > avg_vol * VOL_SPIKE_MULT, avg_vol = sum(vols) / len(vols)
VolSpike(candles) ==
    Last(candles).vol * Len(Vols(candles)) * VOL_SPIKE_MULT_DEN
        > SumSeq(Vols(candles)) * VOL_SPIKE_MULT_NUM

cond_up(candles) ==
    /\ Last(candles).high > MaxSeq(Highs(candles))
    /\ Last(candles).close < MaxSeq(Highs(candles))
    /\ VolSpike(candles)

\* mutant: the bullish condition without the breach of the range low
cond_dn_no_breach(candles) ==
    /\ Last(candles).close > MinSeq(Lows(candles))
    /\ VolSpike(candles)

cond_dn(candles) ==
    /\ Last(candles).low < MinSeq(Lows(candles))
    /\ Last(candles).close > MinSeq(Lows(candles))
    /\ VolSpike(candles)

\* candles[-1] raises IndexError on an empty window
detect_fakeout(candles) ==
    IF Len(candles) = 0 THEN [raised |-> TRUE, val |-> FALSE]
    ELSE IF Highs(candles) = <<>> \/ Lows(candles) = <<>>
         THEN [raised |-> FALSE, val |-> FALSE]
         ELSE [raised |-> FALSE, val |-> cond_up(candles) \/ cond_dn(candles)]

\* mutant: the split rounded up, the first half the longer one
detect_vwap_flip_ceil(candles) ==
    LET mid == (Len(candles) + 1) \div 2
        v1 == get_vwap(Slice(candles, 0, mid))
        v2 == get_vwap(Slice(candles, mid, Len(candles)))
    IN  IF v1 = None \/ v2 = None THEN FALSE
        ELSE LET slope_up == RatGT(v2[1], v1[1])
                 last_close == RatOfInt(Last(candles).close)
             IN  \/ (slope_up /\ RatGT(last_close, v2[1]))
                 \/ ((~slope_up) /\ RatLT(last_close, v2[1]))

detect_vwap_flip(candles) ==
    LET mid == Len(candles) \div 2
        v1 == get_vwap(Slice(candles, 0, mid))
        v2 == get_vwap(Slice(candles, mid, Len(candles)))
    IN  IF v1 = None \/ v2 = None THEN FALSE
        ELSE LET slope_up == RatGT(v2[1], v1[1])
                 last_close == RatOfInt(Last(candles).close)
             IN  \/ (slope_up /\ RatGT(last_close, v2[1]))
                 \/ ((~slope_up) /\ RatLT(last_close, v2[1]))

\* bid_sum, ask_sum, delta and imb of get_orderflow_snapshot; rows [price, size]
Sizes(rows) == [i \in 1..Len(rows) |-> rows[i][2]]

Snapshot(bids, asks) ==
    LET bid_sum == SumSeq(Sizes(bids))
        ask_sum == SumSeq(Sizes(asks))
    IN  [delta |-> Some(bid_sum - ask_sum),
         imb |-> IF bid_sum + ask_sum # 0
                 THEN Some(Rat(bid_sum * 100, bid_sum + ask_sum))
                 ELSE Some(Rat(0, 1))]

Books == {<<>>, <<<<100, 1>>, <<99, 2>>>>}

\* what get_orderflow_snapshot returns: None, None on any failure inside
\* (line 75), delta and imb of the order book otherwise
OrderflowResults ==
    {[delta |-> None, imb |-> None]}
        \cup {Snapshot(bids, asks) : bids \in Books, asks \in Books}

----------------------------------------------------------------------------
(* check_signals and the main loop *)

Minute(t) == (t \div 60) % 60                    \* datetime.minute

\* mutant: the gate compared with <= lets minute 50 through closed
GateClosed_inclusive(minute) == minute <= GATE_MINUTE

\* line 118: if now.minute < 50: return
GateClosed(minute) == minute < GATE_MINUTE

\* mutant: "or" in place of "and" across the two exchanges
And_or(a, b) ==
    IF a.raised THEN [raised |-> TRUE, val |-> FALSE]
    ELSE IF a.val THEN a
    ELSE b

\* Python's "and" on two detector results (lines 125-126): the right
\* operand is evaluated only when the left one is true
And(a, b) ==
    IF a.raised THEN [raised |-> TRUE, val |-> FALSE]
    ELSE IF ~a.val THEN [raised |-> FALSE, val |-> FALSE]
    ELSE b

Returned(b) == [raised |-> FALSE, val |-> b]

\* line 129: if fakeout or vwapflip
AlertCondition(f, v) == f \/ v

\* mutant: the handler catches the fetch errors only
Catches_fetch_only(e) == e \in FetchErrors

\* line 142: except Exception catches every exception the tick raises
Catches(e) == TRUE

\* mutant: send_telegram without its try/except
TelegramCatches_nothing(e) == FALSE

\* line 111: except Exception around requests.post
TelegramCatches(e) == TRUE

\* mutant: dry-run only when both credentials are missing
DryRun_both(t, c) == ~t /\ ~c

\* line 105: if not TELEGRAM_BOT_TOKEN or not TELEGRAM_CHAT_ID
DryRun(t, c) == ~t \/ ~c

\* a float format spec applied to None raises TypeError (line 136)
FormatRaises(v) == v = None

\* lines 129-140: the alert branch is taken and the message is composed, so
\* that control reaches print and send_telegram
Dispatches(f, v, d, i) ==
    AlertCondition(f, v) /\ ~(FormatRaises(d) \/ FormatRaises(i))

\* mutant: the exception is recorded and the tick goes on to the snapshot
Raise_and_go_on(e) ==
    /\ err' = e
    /\ escaped' = FALSE
    /\ pc' = "orderflow"

\* control leaves the try block of check_signals with exception e
Raise(e) ==
    /\ err' = e
    /\ escaped' = ~Catches(e)
    /\ pc' = "sleep"

\* the process starts five seconds before the gate opens, or as it opens
StartTimes ==
    {StartHour * HOUR + GATE_MINUTE * 60 - 5,
     StartHour * HOUR + GATE_MINUTE * 60}

NoAlert == [bnb |-> 0, bybt |-> 0, posted |-> FALSE, ok |-> FALSE, n |-> 0]

\* the main thread is about to enter the loop; no tick has run
Idle ==
    /\ pc = "gate"
    /\ ticks = 0
    /\ now = None
    /\ bnb = <<>>
    /\ bybt = <<>>
    /\ fakeout = FALSE
    /\ vwapflip = FALSE
    /\ delta = None
    /\ imb = None
    /\ msg = None
    /\ err = "none"
    /\ tgerr = "none"
    /\ escaped = FALSE
    /\ calls = <<>>
    /\ posts = 0
    /\ lastAlert = NoAlert
    /\ opens = <<>>
    /\ lastOpen = None

Init ==
    /\ clock \in StartTimes
    /\ token \in BOOLEAN
    /\ chat \in BOOLEAN
    /\ Idle
    /\ win = <<>>
    /\ res = None

\* lines 165, 115-119: the loop calls check_signals, which reads the clock
Gate ==
    /\ pc = "gate"
    /\ ticks' = ticks + 1
    /\ now' = Some(clock)
    /\ pc' = IF GateClosed(Minute(clock)) THEN "sleep" ELSE "fetch_binance"
    /\ opens' = IF GateClosed(Minute(clock)) THEN opens
                 ELSE Append(opens, ticks')
    /\ lastOpen' = IF GateClosed(Minute(clock)) THEN lastOpen
                    ELSE Some(clock)
    /\ UNCHANGED <<clock, token, chat, bnb, bybt, fakeout, vwapflip, delta, imb, msg,
                   err, tgerr, escaped, calls, posts, lastAlert, win, res>>

\* line 122
FetchBinance ==
    /\ pc = "fetch_binance"
    /\ calls' = Append(calls, "fetch_binance")
    /\ \E d \in Durations(BINANCE_TIMEOUT) :
         /\ clock' = clock + d
         /\ \/ \E e \in FetchErrors : Raise(e) /\ bnb' = bnb
            \/ \E r \in Replies :
                 /\ bnb' = fetch_binance(BinanceReply(r[1], r[2], clock'))
                 /\ pc' = "fetch_bybit"
                 /\ UNCHANGED <<err, escaped>>
    /\ UNCHANGED <<ticks, token, chat, now, bybt, fakeout, vwapflip, delta, imb, msg,
                   tgerr, posts, lastAlert, opens, lastOpen, win, res>>

\* line 123
FetchBybit ==
    /\ pc = "fetch_bybit"
    /\ calls' = Append(calls, "fetch_bybit")
    /\ \E d \in Durations(BYBIT_TIMEOUT) :
         /\ clock' = clock + d
         /\ \/ \E e \in FetchErrors : Raise(e) /\ bybt' = bybt
            \/ \E r \in Replies :
                 /\ bybt' = fetch_bybit(BybitReply(r[1], r[2], clock'))
                 /\ pc' = "detect"
                 /\ UNCHANGED <<err, escaped>>
    /\ UNCHANGED <<ticks, token, chat, now, bnb, fakeout, vwapflip, delta, imb, msg,
                   tgerr, posts, lastAlert, opens, lastOpen, win, res>>

\* lines 125-126
Detect ==
    /\ pc = "detect"
    /\ calls' = Append(calls, "detect")
    /\ LET f == And(detect_fakeout(bnb), detect_fakeout(bybt))
           v == And(Returned(detect_vwap_flip(bnb)),
                    Returned(detect_vwap_flip(bybt)))
       IN  IF f.raised
           THEN Raise("IndexError") /\ UNCHANGED <<fakeout, vwapflip>>
           ELSE /\ fakeout' = f.val
                /\ vwapflip' = v.val
                /\ pc' = "orderflow"
                /\ UNCHANGED <<err, escaped>>
    /\ UNCHANGED <<clock, ticks, token, chat, now, bnb, bybt, delta, imb, msg, tgerr,
                   posts, lastAlert, opens, lastOpen, win, res>>

\* line 127, lines 60-75: every failure inside returns None, None
Orderflow ==
    /\ pc = "orderflow"
    /\ calls' = Append(calls, "get_orderflow_snapshot")
    /\ \E d \in Durations(ORDERBOOK_TIMEOUT) :
         /\ clock' = clock + d
         /\ \E o \in OrderflowResults :
                 /\ delta' = o.delta
                 /\ imb' = o.imb
    /\ pc' = "decide"
    /\ UNCHANGED <<ticks, token, chat, now, bnb, bybt, fakeout, vwapflip, msg, err,
                   tgerr, escaped, posts, lastAlert, opens, lastOpen, win, res>>

\* lines 129-139
Decide ==
    /\ pc = "decide"
    /\ IF Dispatches(fakeout, vwapflip, delta, imb)
       THEN /\ msg' = Some([time |-> now[1], fakeout |-> fakeout,
                            vwapflip |-> vwapflip, delta |-> delta[1],
                            imb |-> imb[1]])
            /\ calls' = Append(calls, "print")
            /\ pc' = "send"
            /\ UNCHANGED <<err, escaped>>
       ELSE IF AlertCondition(fakeout, vwapflip)
            THEN Raise("TypeError") /\ UNCHANGED <<msg, calls>>
            ELSE /\ pc' = "sleep"
                 /\ UNCHANGED <<msg, calls, err, escaped>>
    /\ UNCHANGED <<clock, ticks, token, chat, now, bnb, bybt, fakeout, vwapflip,
                   delta, imb, tgerr, posts, lastAlert, opens, lastOpen, win, res>>

\* line 140, lines 104-112
SendTelegram ==
    /\ pc = "send"
    /\ calls' = Append(calls, "send_telegram")
    /\ IF DryRun(token, chat)
       THEN /\ lastAlert' = [bnb |-> Last(bnb).time, bybt |-> Last(bybt).time,
                             posted |-> FALSE, ok |-> FALSE, n |-> ticks]
            /\ pc' = "sleep"
            /\ UNCHANGED <<clock, posts, tgerr, err, escaped>>
       ELSE \E d \in Durations(TELEGRAM_TIMEOUT), ok \in BOOLEAN :
              /\ clock' = clock + d
              /\ posts' = posts + 1
              /\ lastAlert' = [bnb |-> Last(bnb).time, bybt |-> Last(bybt).time,
                               posted |-> TRUE, ok |-> ok, n |-> ticks]
              /\ IF ok
                 THEN /\ pc' = "sleep"
                      /\ UNCHANGED <<tgerr, err, escaped>>
                 ELSE IF TelegramCatches("ConnectionError")
                      THEN /\ tgerr' = "ConnectionError"
                           /\ pc' = "sleep"
                           /\ UNCHANGED <<err, escaped>>
                      ELSE /\ Raise("ConnectionError")
                           /\ UNCHANGED tgerr
    /\ UNCHANGED <<ticks, token, chat, now, bnb, bybt, fakeout, vwapflip, delta, imb,
                   msg, opens, lastOpen, win, res>>

\* lines 166-169: sleep, then the next iteration; check_signals' locals die.
\* The thread wakes late seconds after the requested time has passed.
Wake(late) ==
    /\ pc = "sleep"
    /\ ticks < MaxTicks
    /\ clock' = clock + (IF escaped THEN BACKOFF_SECONDS ELSE SLEEP_SECONDS)
                      + late
    /\ pc' = "gate"
    /\ now' = None
    /\ bnb' = <<>>
    /\ bybt' = <<>>
    /\ fakeout' = FALSE
    /\ vwapflip' = FALSE
    /\ delta' = None
    /\ imb' = None
    /\ msg' = None
    /\ err' = "none"
    /\ tgerr' = "none"
    /\ escaped' = FALSE
    /\ calls' = <<>>
    /\ posts' = 0
    /\ UNCHANGED <<ticks, token, chat, lastAlert, opens, lastOpen, win, res>>

\* time.sleep returns when the requested time has passed
Sleep == Wake(0)

\* time.sleep suspends the thread for at least the requested time; the
\* suspension may be longer (scheduling of other activity in the system)
SleepLate == \E late \in 1..MaxLate : Wake(late)

Next ==
    \/ Gate
    \/ FetchBinance
    \/ FetchBybit
    \/ Detect
    \/ Orderflow
    \/ Decide
    \/ SendTelegram
    \/ Sleep

Spec == Init /\ [][Next]_vars

----------------------------------------------------------------------------
(* The pure functions on arbitrary candle windows: every window of at most *)
(* MaxLen candles over a small set of prices and volumes, candle i opening *)
(* at hour i.  The window is built one candle at a time, then one of the   *)
(* functions is applied to it.  All prices are multiples of three.         *)

Prices ==
    {[high |-> h, low |-> l, close |-> c, vol |-> v] :
        h \in {12, 15}, l \in {3, 6}, c \in {9, 12}, v \in {0, 1, 2}}

\* the candle with prices p that opens at hour i
Candle(p, i) ==
    [time |-> i * HOUR, open |-> p.close, high |-> p.high, low |-> p.low,
     close |-> p.close, vol |-> p.vol]

Result(fn, raised, val, up, dn, vwap) ==
    Some([fn |-> fn, raised |-> raised, val |-> val, up |-> up, dn |-> dn,
          vwap |-> vwap])

InitFn ==
    /\ clock = StartHour * HOUR
    /\ token = TRUE
    /\ chat = TRUE
    /\ Idle
    /\ win = <<>>
    /\ res = None

pipevars == <<clock, pc, ticks, token, chat, now, bnb, bybt, fakeout, vwapflip,
              delta, imb, msg, err, tgerr, escaped, calls, posts, lastAlert,
              opens, lastOpen>>

\* the caller builds the window, oldest candle first
Extend ==
    /\ res = None
    /\ Len(win) < MaxLen
    /\ \E p \in Prices : win' = Append(win, Candle(p, Len(win) + 1))
    /\ UNCHANGED <<res, pipevars>>

ApplyVwap ==
    /\ res = None
    /\ res' = Result("get_vwap", FALSE, FALSE, FALSE, FALSE, get_vwap(win))
    /\ UNCHANGED <<win, pipevars>>

ApplyFakeout ==
    /\ res = None
    /\ res' = LET r == detect_fakeout(win)
                  computed == Len(win) >= 2
              IN  Result("detect_fakeout", r.raised, r.val,
                         computed /\ cond_up(win), computed /\ cond_dn(win),
                         None)
    /\ UNCHANGED <<win, pipevars>>

ApplyVwapFlip ==
    /\ res = None
    /\ res' = Result("detect_vwap_flip", FALSE, detect_vwap_flip(win), FALSE,
                     FALSE, None)
    /\ UNCHANGED <<win, pipevars>>

NextFn ==
    \/ Extend
    \/ ApplyVwap
    \/ ApplyFakeout
    \/ ApplyVwapFlip

SpecFn == InitFn /\ [][NextFn]_vars

----------------------------------------------------------------------------
(* Floating point.  The prices of the source are Python floats, IEEE 754   *)
(* binary64: a positive value is a significand of MANT_BITS bits, the      *)
(* first one set, times a power of two; every operation returns the exact  *)
(* result rounded to the nearest such value, ties to the even significand. *)
(* Significands and exact intermediate results are sequences of bits, most *)
(* significant first.  Overflow and subnormals are out of reach of the     *)
(* values used here.                                                       *)

MANT_BITS == 53

Zeros(n) == [i \in 1..n |-> 0]

StripZeros(bits) ==
    IF \A i \in 1..Len(bits) : bits[i] = 0 THEN <<>>
    ELSE LET k == CHOOSE i \in 1..Len(bits) :
                     bits[i] = 1 /\ \A j \in 1..(i - 1) : bits[j] = 0
         IN  SubSeq(bits, k, Len(bits))

\* The arithmetic on bit strings is done on limbs of LimbBits bits each.
LimbBits == 15
LimbBase == 2 ^ LimbBits

\* the least multiple of LimbBits that is at least n
LimbLen(n) == ((n + LimbBits - 1) \div LimbBits) * LimbBits

PadTo(bits, n) == Zeros(n - Len(bits)) \o bits

ToLimbs(bits) ==
    [j \in 1..(Len(bits) \div LimbBits) |->
        SumSeq([i \in 1..LimbBits |->
                    bits[(j - 1) * LimbBits + i] * 2 ^ (LimbBits - i)])]

FromLimbs(limbs) ==
    [i \in 1..(Len(limbs) * LimbBits) |->
        (limbs[(i - 1) \div LimbBits + 1]
            \div 2 ^ (LimbBits - 1 - ((i - 1) % LimbBits))) % 2]

\* x + y, limb i and the ones left of it still to add
RECURSIVE LimbsAdd(_, _, _, _, _)
LimbsAdd(x, y, i, carry, acc) ==
    IF i = 0 THEN <<carry>> \o acc
    ELSE LimbsAdd(x, y, i - 1, (x[i] + y[i] + carry) \div LimbBase,
                  <<(x[i] + y[i] + carry) % LimbBase>> \o acc)

BitsAdd(a, b) ==
    LET n == LimbLen(IF Len(a) > Len(b) THEN Len(a) ELSE Len(b))
    IN  FromLimbs(LimbsAdd(ToLimbs(PadTo(a, n)), ToLimbs(PadTo(b, n)),
                           n \div LimbBits, 0, <<>>))

\* x * n for a natural number n < 2^6
RECURSIVE LimbsMul(_, _, _, _, _)
LimbsMul(x, n, i, carry, acc) ==
    IF i = 0 THEN <<carry>> \o acc
    ELSE LimbsMul(x, n, i - 1, (x[i] * n + carry) \div LimbBase,
                  <<(x[i] * n + carry) % LimbBase>> \o acc)

BitsMul(bits, n) ==
    LET len == LimbLen(Len(bits))
    IN  FromLimbs(LimbsMul(ToLimbs(PadTo(bits, len)), n, len \div LimbBits,
                           0, <<>>))

\* long division by a natural number n, 0 < n < 2^6: q and r are the
\* quotient and the remainder of the limbs before limb i
RECURSIVE LimbsDiv(_, _, _, _, _)
LimbsDiv(x, n, i, q, r) ==
    IF i > Len(x) THEN [q |-> q, r |-> r]
    ELSE LimbsDiv(x, n, i + 1, Append(q, (r * LimbBase + x[i]) \div n),
                  (r * LimbBase + x[i]) % n)

BitsDiv(bits, n) ==
    LET d == LimbsDiv(ToLimbs(PadTo(bits, LimbLen(Len(bits)))), n, 1, <<>>, 0)
    IN  [q |-> FromLimbs(d.q), r |-> d.r]

FZero == [m |-> <<>>, e |-> 0]

\* the double nearest to bits * 2^e (+ a positive rest below the last bit
\* when sticky), ties to even
Round(bits, e, sticky) ==
    LET b == StripZeros(bits)
        n == Len(b)
    IN  IF n = 0 THEN FZero
        ELSE IF n <= MANT_BITS
        THEN [m |-> b \o Zeros(MANT_BITS - n), e |-> e - (MANT_BITS - n)]
        ELSE LET keep == SubSeq(b, 1, MANT_BITS)
                 guard == b[MANT_BITS + 1]
                 rest == sticky \/ \E i \in (MANT_BITS + 2)..n : b[i] = 1
                 up == guard = 1 /\ (rest \/ keep[MANT_BITS] = 1)
                 r == IF up THEN StripZeros(BitsAdd(keep, <<1>>)) ELSE keep
             IN  IF Len(r) > MANT_BITS
                 THEN [m |-> SubSeq(r, 1, MANT_BITS), e |-> e + (n - MANT_BITS) + 1]
                 ELSE [m |-> r, e |-> e + (n - MANT_BITS)]

\* x + y
FAdd(x, y) ==
    IF x = FZero THEN y
    ELSE IF y = FZero THEN x
    ELSE LET e == IF x.e < y.e THEN x.e ELSE y.e
         IN  Round(BitsAdd(x.m \o Zeros(x.e - e), y.m \o Zeros(y.e - e)), e, FALSE)

\* x * n for a float n whose value is a natural number
FMulNat(x, n) == IF x = FZero THEN FZero ELSE Round(BitsMul(x.m, n), x.e, FALSE)

GuardBits == 8

\* x / n for a float n whose value is a natural number, 0 < n < 2^6
FDivNat(x, n) ==
    IF x = FZero THEN FZero
    ELSE LET d == BitsDiv(x.m \o Zeros(GuardBits), n)
         IN  Round(d.q, x.e - GuardBits, d.r # 0)

\* a < b on two bit strings of the same length
BitsLess(a, b) ==
    \E i \in 1..Len(a) : a[i] < b[i] /\ \A j \in 1..(i - 1) : a[j] = b[j]

\* x < y
FLT(x, y) ==
    IF y = FZero THEN FALSE
    ELSE IF x = FZero THEN TRUE
    ELSE IF x.e # y.e THEN x.e < y.e
    ELSE BitsLess(x.m, y.m)

FGT(x, y) == FLT(y, x)

\* get_vwap on float prices; the volumes are floats whose values are small
\* natural numbers, so tot_vol stays exact
RECURSIVE VwapLoopF(_, _, _, _)
VwapLoopF(candles, i, tot_vol, tot_vp) ==
    IF i > Len(candles) THEN [tot_vol |-> tot_vol, tot_vp |-> tot_vp]
    ELSE LET c == candles[i]
             typical == FDivNat(FAdd(FAdd(c.high, c.low), c.close), 3)
         IN  VwapLoopF(candles, i + 1, tot_vol + c.vol,
                       FAdd(tot_vp, FMulNat(typical, c.vol)))

get_vwap_f64(candles) ==
    LET t == VwapLoopF(candles, 1, 0, FZero)
    IN  IF t.tot_vol # 0 THEN Some(FDivNat(t.tot_vp, t.tot_vol)) ELSE None

\* detect_vwap_flip on float prices
detect_vwap_flip_f64(candles) ==
    LET mid == Len(candles) \div 2
        v1 == get_vwap_f64(Slice(candles, 0, mid))
        v2 == get_vwap_f64(Slice(candles, mid, Len(candles)))
    IN  IF v1 = None \/ v2 = None THEN FALSE
        ELSE LET slope_up == FGT(v2[1], v1[1])
                 last_close == Last(candles).close
             IN  \/ (slope_up /\ FGT(last_close, v2[1]))
                 \/ ((~slope_up) /\ FLT(last_close, v2[1]))

\* significands: 1.0, 1.5 and the double nearest to 0.1 (0x1.999999999999ap-4)
OneBits == <<1>> \o Zeros(MANT_BITS - 1)
ThreeBits == <<1, 1>> \o Zeros(MANT_BITS - 2)
TenthBits ==
    <<1>> \o [i \in 1..48 |-> IF i % 4 \in {1, 0} THEN 1 ELSE 0] \o <<1, 0, 1, 0>>

\* the positive constants the prices are multiplied by: 3.0 and 0.1
Scales ==
    {[name |-> "3.0", m |-> ThreeBits, e |-> 1 - (MANT_BITS - 1)],
     [name |-> "0.1", m |-> TenthBits, e |-> (0 - 4) - (MANT_BITS - 1)]}

One == [name |-> "1.0", m |-> OneBits, e |-> 0 - (MANT_BITS - 1)]

Log2(x) == CHOOSE j \in 0..30 : 2 ^ j = x

\* k * x for a price x that is a power of two: the product is exact, it has
\* the significand of k
ScalePrice(x, k) == [m |-> k.m, e |-> k.e + Log2(x)]

ScaleCandle(c, k) ==
    [time |-> c.time, open |-> ScalePrice(c.open, k),
     high |-> ScalePrice(c.high, k), low |-> ScalePrice(c.low, k),
     close |-> ScalePrice(c.close, k), vol |-> c.vol]

\* the window of floats k * w
ScaleWindow(w, k) == [i \in 1..Len(w) |-> ScaleCandle(w[i], k)]

\* candles with prices 1 and 2, low <= close <= high, volume 1 or 2
FloatPrices ==
    {p \in [high : {1, 2}, low : {1, 2}, close : {1, 2}, vol : {1, 2}] :
        p.low <= p.close /\ p.close <= p.high}

\* the caller builds a window, oldest candle first
ExtendFloat ==
    /\ res = None
    /\ Len(win) < MaxScaleLen
    /\ \E p \in FloatPrices : win' = Append(win, Candle(p, Len(win) + 1))
    /\ UNCHANGED <<res, pipevars>>

\* detect_vwap_flip applied to the window and to the window with every
\* price multiplied by k
ApplyScaled ==
    /\ res = None
    /\ \E k \in Scales :
         res' = Some([fn |-> "detect_vwap_flip_f64", k |-> k.name,
                      val |-> detect_vwap_flip_f64(ScaleWindow(win, One)),
                      scaled |-> detect_vwap_flip_f64(ScaleWindow(win, k))])
    /\ UNCHANGED <<win, pipevars>>

NextScale ==
    \/ ExtendFloat
    \/ ApplyScaled

SpecScale == InitFn /\ [][NextScale]_vars

\* The main thread is the only thread of the model: it takes its next step
\* whenever it has one (every request carries a timeout, every sleep ends).
\* The process starts with credentials, on the hour.
InitFair ==
    /\ clock = StartHour * HOUR
    /\ token = TRUE
    /\ chat = TRUE
    /\ Idle
    /\ win = <<>>
    /\ res = None

FairSpec == InitFair /\ [][Next]_vars /\ WF_vars(Next)

\* The poll loop with late wake-ups.  The process starts one second before
\* the gate opens, with credentials.
InitSched ==
    /\ clock = StartHour * HOUR + GATE_MINUTE * 60 - 1
    /\ token = TRUE
    /\ chat = TRUE
    /\ Idle
    /\ win = <<>>
    /\ res = None

NextSched ==
    \/ Next
    \/ SleepLate

SpecSched == InitSched /\ [][NextSched]_vars

----------------------------------------------------------------------------
(* Properties *)

Count(seq, x) == Cardinality({i \in 1..Len(seq) : seq[i] = x})
Called(x) == Count(calls, x) > 0

\* the tick in progress passed the gate, and this earlier dispatch was made
\* by the gate-passing tick right before it
PreviousOpenTickAlerted ==
    /\ Len(opens) >= 2
    /\ opens[Len(opens)] = ticks
    /\ lastAlert.n = opens[Len(opens) - 1]

SameCandleAsLastAlert ==
    /\ Last(bnb).time = lastAlert.bnb
    /\ Last(bybt).time = lastAlert.bybt

\* C1: of two consecutive gate-passing ticks that both confirm a pattern on
\* the same hourly candle, only the first calls the notification transport:
\* no step posts an alert for the candle the previous gate-passing tick
\* already posted one for.
C1_DedupSameCandle ==
    [][(pc = "send" /\ PreviousOpenTickAlerted /\ lastAlert.posted
            /\ SameCandleAsLastAlert)
        => posts' = posts]_vars

\* C2: a gated-open tick whose candle fetches succeed and which confirms a
\* pattern while the order-book snapshot failed (delta and imb are None)
\* ends having called the dispatcher exactly once, with a composed message.
C2_OrderbookFailureStillDispatches ==
    (pc = "sleep" /\ Called("get_orderflow_snapshot")
        /\ AlertCondition(fakeout, vwapflip) /\ delta = None)
    => (Count(calls, "send_telegram") = 1 /\ msg # None)

\* the tick took the branch of line 129: it composed the message or failed
\* composing it
AlertDecided == msg # None \/ err = "TypeError"

\* C3: once the detectors have run, fakeout is confirmed exactly when the
\* fakeout detector triggers on both windows, the VWAP flip exactly when the
\* flip detector triggers on both, and the tick takes the alert branch
\* exactly when one of the two is confirmed.
C3_Confluence ==
    (Called("detect") /\ err # "IndexError")
    => /\ fakeout = (detect_fakeout(bnb).val /\ detect_fakeout(bybt).val)
       /\ vwapflip = (detect_vwap_flip(bnb) /\ detect_vwap_flip(bybt))
       /\ pc \in {"send", "sleep"} => (AlertDecided <=> (fakeout \/ vwapflip))
       /\ (detect_fakeout(bnb).val /\ ~detect_fakeout(bybt).val) => ~fakeout
       /\ (detect_vwap_flip(bnb) /\ ~detect_vwap_flip(bybt)) => ~vwapflip

\* one exchange shows only a fakeout, the other only a VWAP flip, and the
\* tick ends without an alert
C3_Witness ==
    /\ pc = "sleep"
    /\ Called("get_orderflow_snapshot")
    /\ detect_fakeout(bnb).val /\ ~detect_vwap_flip(bnb)
    /\ detect_vwap_flip(bybt) /\ ~detect_fakeout(bybt).val
    /\ ~AlertDecided
    /\ ~Called("send_telegram")

\* C4: a tick that read a minute of 0..49 ends at once having fetched,
\* detected and dispatched nothing; a tick that read a minute of 50..59
\* goes on to fetch the Binance candles; nothing but the minute decides.
C4_TimingGate ==
    now # None =>
        IF Minute(now[1]) \in 0..49
        THEN pc = "sleep" /\ calls = <<>> /\ posts = 0 /\ bnb = <<>>
             /\ bybt = <<>> /\ (opens = <<>> \/ opens[Len(opens)] # ticks)
        ELSE /\ Minute(now[1]) \in 50..59
             /\ pc = "fetch_binance"
                  \/ (calls # <<>> /\ calls[1] = "fetch_binance")
             /\ opens # <<>> /\ opens[Len(opens)] = ticks

\* the first tick read minute 49 and was skipped, the second one read a
\* minute past the gate and runs the pipeline
C4_Witness ==
    /\ opens = <<2>>
    /\ ticks = 2
    /\ pc = "fetch_binance"
    /\ Minute(now[1]) >= 50

\* C5: an exception raised anywhere in a tick's chain is caught by
\* check_signals, which ends the tick without dispatching; no exception
\* reaches the main loop; and every tick, failed or not, is followed by the
\* next one (up to the last iteration explored).
C5_ErrorIsolation ==
    /\ [](err # "none" => (pc = "sleep" /\ ~Called("send_telegram")))
    /\ [](~escaped)
    /\ (now # None /\ ticks < MaxTicks) ~> (now = None /\ pc = "gate")
    /\ (pc = "gate" /\ ticks < MaxTicks) ~> (now # None)

\* a tick was skipped on a formatting error and the loop is about to sleep
C5_Witness ==
    /\ pc = "sleep"
    /\ err = "TypeError"
    /\ ticks > 1
    /\ ticks < MaxTicks

\* C7: once a tick's send attempt for a candle has failed, no later tick
\* referencing that candle attempts another send.
C7_NoSecondAttemptAfterFailure ==
    [][(pc = "send" /\ lastAlert.posted /\ ~lastAlert.ok
            /\ SameCandleAsLastAlert)
        => posts' = posts]_vars

\* the dispatcher of this tick posted and the post failed
SendFailedThisTick ==
    Called("send_telegram") /\ lastAlert.posted /\ ~lastAlert.ok

\* C8: a tick calls the dispatcher at most once and the dispatcher posts at
\* most once; when the post fails the dispatcher records the error itself,
\* the tick ends without an exception in check_signals, and the loop sleeps
\* its normal 600 seconds before the next tick.
C8_TransportFailureTolerated ==
    /\ [](posts <= 1 /\ Count(calls, "send_telegram") <= 1)
    /\ [](SendFailedThisTick =>
            (pc = "sleep" /\ posts = 1 /\ tgerr # "none" /\ err = "none"
             /\ ~escaped))
    /\ [][(pc = "sleep" /\ SendFailedThisTick)
            => (pc' = "gate" /\ clock' = clock + 600)]_vars

\* the post of this tick has failed and the tick is over
C8_Witness ==
    /\ pc = "sleep"
    /\ SendFailedThisTick
    /\ posts = 1
    /\ ticks < MaxTicks

\* C9: no dispatch rests on a short window: whenever the dispatcher is
\* called, both windows hold exactly LOOKBACK + 1 candles.
C9_NoDispatchFromShortWindow ==
    Called("send_telegram")
    => (Len(bnb) = LOOKBACK + 1 /\ Len(bybt) = LOOKBACK + 1)

\* C13: when the bot token or the chat id is missing, no tick ever posts to
\* the transport; a tick that decided to alert has printed its message,
\* has called the dispatcher and ends without an exception.
C13_DryRunNeverPosts ==
    (~token \/ ~chat)
    => /\ posts = 0
       /\ ~lastAlert.posted
       /\ tgerr = "none"
       /\ Called("send_telegram")
            => /\ pc = "sleep"
               /\ msg # None
               /\ Called("print")
               /\ err = "none"
               /\ ~escaped

\* the token is set, the chat id is not, and a tick has gone through the
\* dispatcher
C13_Witness ==
    /\ token
    /\ ~chat
    /\ pc = "sleep"
    /\ Called("send_telegram")
    /\ posts = 0

\* C16: a tick whose Binance or Bybit fetch failed is over: it ran no
\* detector, took no snapshot, evaluated no confluence result, composed no
\* message and made no dispatch call.
C16_FetchFailureMeansNoDecision ==
    err \in FetchErrors
    => /\ pc = "sleep"
       /\ ~Called("detect")
       /\ ~Called("get_orderflow_snapshot")
       /\ ~Called("print")
       /\ ~Called("send_telegram")
       /\ fakeout = FALSE
       /\ vwapflip = FALSE
       /\ msg = None
       /\ posts = 0

\* Binance returned a full window on which the VWAP flip triggers and the
\* Bybit fetch failed
C16_Witness ==
    /\ err \in FetchErrors
    /\ Called("fetch_bybit")
    /\ Len(bnb) = LOOKBACK + 1
    /\ detect_vwap_flip(bnb)
    /\ pc = "sleep"

\* the last dispatch of the run was posted successfully by an earlier tick,
\* for candles older than the ones this tick fetched
EarlierAlertOnOlderCandle ==
    /\ lastAlert.n > 0
    /\ lastAlert.n < ticks
    /\ lastAlert.posted
    /\ lastAlert.ok
    /\ Last(bnb).time > lastAlert.bnb
    /\ Last(bybt).time > lastAlert.bybt

\* C12: a gate-passing tick that confirms a pattern on a later candle than
\* the one already alerted ends having called the dispatcher.
C12_NewCandleDispatchesAgain ==
    (pc = "sleep" /\ Called("get_orderflow_snapshot")
        /\ AlertCondition(fakeout, vwapflip) /\ EarlierAlertOnOlderCandle)
    => Called("send_telegram")

\* C14: with the clock and the two windows fixed (the tick is about to take
\* the snapshot), whether the tick dispatches is the same for any two
\* results of the order-book request, available or not.
C14_OrderflowNeverDecides ==
    pc = "orderflow"
    => \A o1, o2 \in OrderflowResults :
         Dispatches(fakeout, vwapflip, o1.delta, o1.imb)
            = Dispatches(fakeout, vwapflip, o2.delta, o2.imb)

Hour(t) == t \div HOUR

\* a tick that passes the gate reads a later UTC hour than the last tick
\* that passed it
OneOpenTickPerHour ==
    [][(pc = "gate" /\ pc' = "fetch_binance" /\ lastOpen # None)
        => Hour(clock) > Hour(lastOpen[1])]_vars

\* no dispatch call is made for the candle the last dispatch call was made
\* for
OneDispatchPerCandle ==
    [][(pc = "send" /\ lastAlert.n > 0 /\ SameCandleAsLastAlert)
        => calls' = calls]_vars

\* C19: at most one tick per UTC hour passes the gate, and at most one
\* dispatch call is made per hourly candle.
C19_OneAlertPerCandleFromScheduling ==
    OneOpenTickPerHour /\ OneDispatchPerCandle

\* C20: every UTC hour after the one of the startup has a tick that reads
\* a minute of 50 or more: when the loop leaves a tick for one that starts
\* in a later hour, a tick of the hour it leaves has passed the gate.
C20_NoHourMissed ==
    [][(pc = "sleep" /\ pc' = "gate" /\ Hour(now[1]) > StartHour
            /\ Hour(clock') > Hour(now[1]))
        => (lastOpen # None /\ Hour(lastOpen[1]) = Hour(now[1]))]_vars

----------------------------------------------------------------------------
(* Properties of the pure functions *)

Applied(fn) == res # None /\ res[1].fn = fn

RECURSIVE SumOver(_, _)
SumOver(S, f) ==
    IF S = {} THEN 0
    ELSE LET x == CHOOSE y \in S : TRUE IN f[x] + SumOver(S \ {x}, f)

SetMax(S) == CHOOSE m \in S : \A x \in S : x <= m
SetMin(S) == CHOOSE m \in S : \A x \in S : m <= x

RangeHigh(w) == SetMax({w[i].high : i \in 1..(Len(w) - 1)})
RangeLow(w) == SetMin({w[i].low : i \in 1..(Len(w) - 1)})

\* C6 as claimed: on a window with a non-empty closed part the bearish and
\* the bullish condition of detect_fakeout are never both true.
C6_BranchesExclusive ==
    (Applied("detect_fakeout") /\ Len(win) >= 2)
    => ~(res[1].up /\ res[1].dn)

\* C6 as amended: the two conditions are never both true unless the last
\* candle's high lies above and its low below the whole closed range; when
\* both are true the close lies strictly inside that range.
C6_BranchesExclusiveUnlessOutside ==
    (Applied("detect_fakeout") /\ Len(win) >= 2)
    => LET last == win[Len(win)]
       IN  /\ (last.high <= RangeHigh(win) \/ last.low >= RangeLow(win))
                => ~(res[1].up /\ res[1].dn)
           /\ (res[1].up /\ res[1].dn)
                => /\ last.low < RangeLow(win)
                   /\ RangeLow(win) < last.close
                   /\ last.close < RangeHigh(win)
                   /\ RangeHigh(win) < last.high

\* the bearish condition alone is true of a last candle whose low stays
\* inside the closed range
C6_Witness ==
    /\ Applied("detect_fakeout")
    /\ Len(win) >= 2
    /\ win[Len(win)].low >= RangeLow(win)
    /\ res[1].up
    /\ ~res[1].dn

\* the sums of get_vwap, taken over the index set of the window
TotalVol(w) == SumOver(1..Len(w), [i \in 1..Len(w) |-> w[i].vol])

TotalTypicalVol3(w) ==
    SumOver(1..Len(w),
            [i \in 1..Len(w) |-> (w[i].high + w[i].low + w[i].close) * w[i].vol])

\* C10: get_vwap returns None exactly for the windows whose total volume is
\* zero, the empty one included, and otherwise the quotient of the sum of
\* typical price times volume by the sum of volume.
C10_VwapUndefinedOnZeroVolume ==
    Applied("get_vwap")
    => /\ ~res[1].raised
       /\ IF TotalVol(win) = 0
          THEN res[1].vwap = None
          ELSE /\ res[1].vwap # None
               /\ res[1].vwap[1].den > 0
               /\ res[1].vwap[1].num * 3 * TotalVol(win)
                    = TotalTypicalVol3(win) * res[1].vwap[1].den

\* a non-empty window of zero-volume candles got None
C10_Witness ==
    /\ Applied("get_vwap")
    /\ Len(win) >= 2
    /\ TotalVol(win) = 0
    /\ res[1].vwap = None

\* the volume of the closed candles of w, summed over their index set
ClosedVol(w) == SumOver(1..(Len(w) - 1), [i \in 1..(Len(w) - 1) |-> w[i].vol])

\* C15: detect_fakeout does not trigger on a window whose closed part is
\* empty, nor on one whose closed candles have mean volume zero, whatever
\* the last candle is.
C15_DegenerateBaselineNotTriggered ==
    (Applied("detect_fakeout") /\ Len(win) >= 1
        /\ (Len(win) = 1 \/ ClosedVol(win) = 0))
    => (~res[1].raised /\ ~res[1].val)

\* last.volume > avgVol * 1.8, avgVol the mean volume of the closed candles
SpikeOverClosedMean(w) ==
    w[Len(w)].vol * (Len(w) - 1) * 10 > ClosedVol(w) * 18

\* C17: on a window with a non-empty closed part detect_fakeout returns
\* without raising, and triggers exactly when the last candle breaks above
\* the closed range and closes below its high on a volume spike, or breaks
\* below the closed range and closes above its low on a volume spike, the
\* range and the mean volume taken over the closed candles only and every
\* comparison strict.
C17_FakeoutMatchesDefinition ==
    (Applied("detect_fakeout") /\ Len(win) >= 2)
    => LET last == win[Len(win)]
           bearish == /\ last.high > RangeHigh(win)
                      /\ last.close < RangeHigh(win)
                      /\ SpikeOverClosedMean(win)
           bullish == /\ last.low < RangeLow(win)
                      /\ last.close > RangeLow(win)
                      /\ SpikeOverClosedMean(win)
       IN  /\ ~res[1].raised
           /\ res[1].val <=> (bearish \/ bullish)
           /\ res[1].up <=> bearish
           /\ res[1].dn <=> bullish

\* a window of three candles whose closed volumes differ triggers on its
\* bullish branch alone
C17_Witness ==
    /\ Applied("detect_fakeout")
    /\ Len(win) = 3
    /\ win[1].vol # win[2].vol
    /\ res[1].val
    /\ res[1].dn
    /\ ~res[1].up

\* the sums of get_vwap over candles a..b of w
HalfVol(w, a, b) == SumOver(a..b, [i \in a..b |-> w[i].vol])

HalfTypicalVol3(w, a, b) ==
    SumOver(a..b, [i \in a..b |-> (w[i].high + w[i].low + w[i].close) * w[i].vol])

\* C18: detect_vwap_flip splits the window after floor(len / 2) candles;
\* with v1 and v2 the VWAPs of the two halves it returns false when either
\* half has no volume, and otherwise true exactly when v2 > v1 and the last
\* close is above v2, or v2 <= v1 and the last close is below v2.
C18_VwapFlipMatchesDefinition ==
    Applied("detect_vwap_flip")
    => LET n == Len(win)
           mid == n \div 2
           d1 == HalfVol(win, 1, mid)
           n1 == HalfTypicalVol3(win, 1, mid)
           d2 == HalfVol(win, mid + 1, n)
           n2 == HalfTypicalVol3(win, mid + 1, n)
           slopeUp == n2 * d1 > n1 * d2
           above == win[n].close * 3 * d2 > n2
           below == win[n].close * 3 * d2 < n2
       IN  /\ ~res[1].raised
           /\ IF d1 = 0 \/ d2 = 0
              THEN ~res[1].val
              ELSE res[1].val <=> ((slopeUp /\ above) \/ (~slopeUp /\ below))

\* a window of odd length, both halves with volume, triggers on a falling
\* VWAP with the last close below the second half's VWAP
C18_Witness ==
    /\ Applied("detect_vwap_flip")
    /\ Len(win) = 3
    /\ win[1].vol > 0
    /\ HalfVol(win, 2, 3) > 0
    /\ HalfTypicalVol3(win, 2, 3) * win[1].vol
         < HalfTypicalVol3(win, 1, 1) * HalfVol(win, 2, 3)
    /\ res[1].val

\* C11: detect_vwap_flip gives the same outcome on a window and on the
\* window with open, high, low and close of every candle multiplied by a
\* positive constant k, the volumes unchanged.
C11_VwapFlipScaleInvariant ==
    Applied("detect_vwap_flip_f64") => (res[1].val = res[1].scaled)

====
